---- MODULE Spec2Model ----
(***************************************************************************)
(* Azure management-lock remover: scope parser (parser.py), retry with     *)
(* exponential back-off (retry.py) and the removal operations              *)
(* (operations.py, auth.py).                                               *)
(*                                                                         *)
(* Strings.  A Python string is represented by the sequence of its         *)
(* "/"-delimited segments, i.e. by the value of s.split("/"):              *)
(*    "/subscriptions/S"  is  <<"", "subscriptions", "S">>,                *)
(*    "rg/"               is  <<"rg", "">>,                                *)
(*    ""                  is  <<"">>.                                      *)
(* split("/") is a bijection between strings and non-empty sequences of    *)
(* "/"-free segments, so nothing is lost.  A substring "/kw/" with kw      *)
(* "/"-free occurs exactly where a whole segment equal to kw has a         *)
(* segment before it and a segment after it.                               *)
(***************************************************************************)
EXTENDS Integers, Sequences, FiniteSets, TLC

VARIABLES
    \* the parser under test (SpecParse), after the scope derivation (SpecScope)
    lock_id,      \* SpecScope: lock.id of the lock given to remove_lock ("" otherwise)
    scope,        \* the scope string handed to parse_lock_scope
    parsed,       \* what parse_lock_scope returned or raised (type "none" before the call)
    pstep,        \* "id" before the derivation, "input" before the call, "done" after it
    \* RetryManager (retry.py)
    max_retries,  \* self.max_retries
    base_delay,   \* self.base_delay, in seconds
    attempt,      \* the loop variable of retry_with_backoff
    invocations,  \* how many times the current retry_with_backoff call has invoked func
    sleeps,       \* the delays the current retry_with_backoff call has slept, in order
    answers,      \* SpecRetry: what each invocation of func did, in order
    rpc,          \* SpecRetry: "idle", "run" (inside retry_with_backoff), "done"
    rresult,      \* SpecRetry: what retry_with_backoff returned or raised
    \* LockOperations (operations.py), AzureAuthManager (auth.py) and the gateway (Spec)
    dry_run,        \* self.dry_run
    client,         \* AzureAuthManager._client: "none" (None) or "ready"
    gw,             \* the locks the remote service holds
    pc,             \* "idle", "list" (inside list_locks), "loop" (at locks[idx]), "off"
    op,             \* the public method being executed, or the last one executed ("none": none yet)
    locks,          \* the list being processed: the enumerated one, or the argument of remove_lock
    idx,            \* position in locks of the lock being processed (1-based), 0 before the loop
    success_count,  \* local of remove_all_locks
    failure_count,  \* local of remove_all_locks
    processed,      \* what remove_lock returned for locks[1], locks[2], ... so far in this call
    result,         \* what the last public call returned or raised
    prev,           \* the public call before the current one: [op, lock, outcome]
    lastCall,       \* the latest gateway delete operation of the current call: [idx, call]
    enumerated,     \* whether the current call has invoked the gateway's enumeration
    lastAnswer,     \* what the latest invocation of a retried function did in the current call
    ncalls,         \* public calls made so far
    metered,        \* whether the run keeps the two counters below (they stay 0 otherwise)
    gateway_calls,  \* gateway operations (enumerate, delete) invoked in the current call
    slept,          \* how many times time.sleep was called in the current call
    \* main (main.py)
    subscription,   \* args.subscription_id, as [length, hyphens]: len(s) and s.count("-")
    mpc,            \* "running", "exited"; "off": main is not part of the run
    exit_code       \* the exit code of the process once mpc = "exited"

parseVars == <<lock_id, scope, parsed, pstep>>

retryVars == <<max_retries, base_delay, attempt, invocations, sleeps>>

retryOnlyVars == <<answers, rpc, rresult>>

opVars == <<dry_run, client, gw, pc, op, locks, idx, success_count, failure_count,
            processed, result, prev, lastCall, enumerated, lastAnswer, ncalls,
            metered, gateway_calls, slept>>

mainVars == <<subscription, mpc, exit_code>>

vars == <<parseVars, retryVars, retryOnlyVars, opVars, mainVars>>

(***************************************************************************)
(* Python string primitives on the segment representation                  *)
(***************************************************************************)

\* str.lower() of one segment, on the segments the model uses
Lower(seg) ==
    CASE seg = "resourceGroups"          -> "resourcegroups"
      [] seg = "Providers"               -> "providers"
      [] seg = "S"                       -> "s"
      [] seg = "Microsoft.Authorization" -> "microsoft.authorization"
      [] seg = "Microsoft.Storage"       -> "microsoft.storage"
      [] seg = "storageAccounts"         -> "storageaccounts"
      [] OTHER                           -> seg

\* s.lower()
LowerStr(s) == [i \in 1..Len(s) |-> Lower(s[i])]

\* the positions of the segments of s that are an occurrence of "/kw/" in s
Occurrences(s, kw) == {i \in 2..(Len(s) - 1) : s[i] = kw}

\* "/kw/" in s
Contains(s, kw) == Occurrences(s, kw) # {}

\* mutant: the last occurrence instead of the first
Least_Last(S) == CHOOSE i \in S : \A j \in S : i >= j

\* the least element of a non-empty set of integers
Least(S) == CHOOSE i \in S : \A j \in S : i <= j

\* s[k:] where k is the first character after the segment at position i (and its "/")
After(s, i) == SubSeq(s, i + 1, Len(s))

\* mutant: nothing is stripped
RStrip_Nothing(s) == s

\* s.rstrip("/"): every trailing "/" is removed
RECURSIVE RStrip(_)
RStrip(s) == IF Len(s) > 1 /\ s[Len(s)] = "" THEN RStrip(SubSeq(s, 1, Len(s) - 1)) ELSE s

(***************************************************************************)
(* parser.py                                                               *)
(***************************************************************************)

\* a raised exception, as a value
Raise(kind) == [exc |-> kind]

IsExc(r) == "exc" \in DOMAIN r

\* LockScopeParser._parse_subscription_scope
_parse_subscription_scope(lock_scope) == [type |-> "subscription"]

\* mutant: a resource type with nothing after it is accepted
_parse_resource_scope_NoNameCheck(lock_scope, after_rg) ==
    LET parts == after_rg
        hits  == {i \in 1..Len(parts) : Lower(parts[i]) = "providers"}
    IN  IF Len(parts) < 4 THEN Raise("ValueError")
        ELSE IF hits = {} THEN Raise("ValueError")
        ELSE LET providers_index == Least(hits) - 1
             IN  IF providers_index + 2 >= Len(parts) THEN Raise("ValueError")
                 ELSE [type |-> "resource",
                       resource_group_name |-> <<parts[1]>>,
                       provider |-> <<parts[providers_index + 2]>>,
                       resource_type |-> <<parts[providers_index + 3]>>,
                       resource_name |-> IF providers_index + 3 < Len(parts)
                                         THEN SubSeq(parts, providers_index + 4, Len(parts))
                                         ELSE <<"">>]

\* LockScopeParser._parse_resource_scope; providers_index is the 0-based Python index,
\* parts[k] of the code is parts[k + 1] here
_parse_resource_scope(lock_scope, after_rg) ==
    LET parts == after_rg
        hits  == {i \in 1..Len(parts) : Lower(parts[i]) = "providers"}
    IN  IF Len(parts) < 4 THEN Raise("ValueError")
        ELSE IF hits = {} THEN Raise("ValueError")
        ELSE LET providers_index == Least(hits) - 1
             IN  IF providers_index + 2 >= Len(parts) THEN Raise("ValueError")
                 ELSE IF providers_index + 3 < Len(parts)
                 THEN [type |-> "resource",
                       resource_group_name |-> <<parts[1]>>,
                       provider |-> <<parts[providers_index + 2]>>,
                       resource_type |-> <<parts[providers_index + 3]>>,
                       resource_name |-> SubSeq(parts, providers_index + 4, Len(parts))]
                 ELSE Raise("ValueError")

\* LockScopeParser._parse_resource_group_or_resource_scope
_parse_resource_group_or_resource_scope(lock_scope, scope_lower) ==
    IF ~Contains(scope_lower, "resourcegroups") THEN Raise("ValueError")
    ELSE LET rg_index == Least(Occurrences(scope_lower, "resourcegroups"))
             after_rg == After(lock_scope, rg_index)
         IN  IF ~Contains(after_rg, "providers")
             THEN [type |-> "resource_group", resource_group_name |-> RStrip(after_rg)]
             ELSE _parse_resource_scope(lock_scope, after_rg)

\* LockScopeParser.parse_lock_scope: every exception raised inside becomes InvalidScopeError
parse_lock_scope(lock_scope) ==
    LET scope_lower == LowerStr(lock_scope)
        r == IF Contains(scope_lower, "resourcegroups")
             THEN _parse_resource_group_or_resource_scope(lock_scope, scope_lower)
             ELSE _parse_subscription_scope(lock_scope)
    IN  IF IsExc(r) THEN Raise("InvalidScopeError") ELSE r

(***************************************************************************)
(* retry.py                                                                *)
(***************************************************************************)

\* what an invocation of a retried function can do: return, or raise one of
\*   ResourceNotFoundError   azure.core, a subclass of HttpResponseError (404)
\*   HttpResponseError_403   azure.core HttpResponseError with status_code 403
\*   HttpResponseError_500   azure.core HttpResponseError with another status_code
\*   ServiceRequestError     azure.core, the request never reached the service
\*   InvalidScopeError, AuthenticationError, AzureClientError   exceptions.py
\*   Exception               anything else
ExcKinds == {"ResourceNotFoundError", "HttpResponseError_403", "HttpResponseError_500",
             "ServiceRequestError", "InvalidScopeError", "AuthenticationError",
             "AzureClientError", "Exception"}

\* isinstance(e, HttpResponseError)
IsHttpResponseError(kind) ==
    kind \in {"ResourceNotFoundError", "HttpResponseError_403", "HttpResponseError_500"}

\* e.status_code of an HttpResponseError
status_code(kind) ==
    CASE kind = "ResourceNotFoundError" -> 404
      [] kind = "HttpResponseError_403" -> 403
      [] OTHER                          -> 500

\* RetryManager.__init__ defaults
DefaultMaxRetries == 3

DefaultBaseDelay == 1

\* mutant: the failures of the client construction are retried too
IsRetriedClass_WithClientFailures(kind) ==
    \/ kind = "ServiceRequestError"
    \/ IsHttpResponseError(kind)
    \/ kind \in {"AuthenticationError", "AzureClientError"}

\* mutant: except Exception
IsRetriedClass_Any(kind) == TRUE

\* the except clause of retry_with_backoff: except (ServiceRequestError, HttpResponseError)
IsRetriedClass(kind) == kind = "ServiceRequestError" \/ IsHttpResponseError(kind)

\* mutant: the delay does not grow
BackoffDelay_Constant(base, att) == base

\* mutant: the delay grows linearly
BackoffDelay_Linear(base, att) == base * (att + 1)

\* delay = self.base_delay * (2**attempt)
BackoffDelay(base, att) == base * (2 ^ att)

\* mutant: range(self.max_retries + 2), one iteration more
RetryIteration_OneMore(outcome, att, maxr) ==
    IF outcome = "ok" THEN "return"
    ELSE IF IsRetriedClass(outcome)
         THEN IF att = maxr + 1 THEN "raise" ELSE "sleep"
         ELSE "raise"

\* one iteration of the loop of retry_with_backoff, given what func() did ("ok" or an
\* exception): "return", "raise" that exception, or "sleep" and go round again
RetryIteration(outcome, att, maxr) ==
    IF outcome = "ok" THEN "return"
    ELSE IF IsRetriedClass(outcome)
         THEN IF att = maxr THEN "raise" ELSE "sleep"
         ELSE "raise"

(***************************************************************************)
(* SpecRetry: retry_with_backoff around an arbitrary operation             *)
(***************************************************************************)

\* the largest max_retries and base_delay SpecRetry constructs a RetryManager with
MaxMaxRetries == 3

MaxBaseDelay == 2

FuncOutcomes == {"ok", "ServiceRequestError", "HttpResponseError_500",
                 "ResourceNotFoundError", "InvalidScopeError", "Exception"}

ParseIdle ==
    /\ lock_id = <<"">>
    /\ scope = <<"">>
    /\ parsed = [type |-> "none"]
    /\ pstep = "off"

\* no public call
NoCall == [op |-> "none", lock |-> "none", outcome |-> "none"]

\* a subscription id of GUID form: 36 characters, 4 of them hyphens
GuidShape == [length |-> 36, hyphens |-> 4]

\* main is not part of the run: the remover was constructed by another caller
NoMain ==
    /\ subscription = GuidShape
    /\ mpc = "off"
    /\ exit_code = 0

OpsIdle ==
    /\ dry_run = FALSE
    /\ client = "none"
    /\ gw = {}
    /\ pc = "off"
    /\ op = "none"
    /\ locks = <<>>
    /\ idx = 0
    /\ success_count = 0
    /\ failure_count = 0
    /\ processed = <<>>
    /\ result = [kind |-> "none"]
    /\ prev = NoCall
    /\ lastCall = [idx |-> 0]
    /\ enumerated = FALSE
    /\ lastAnswer = "none"
    /\ ncalls = 0
    /\ metered = FALSE
    /\ gateway_calls = 0
    /\ slept = 0
    /\ NoMain

InitRetry ==
    /\ ParseIdle
    /\ OpsIdle
    /\ max_retries \in 0..MaxMaxRetries
    /\ base_delay \in 1..MaxBaseDelay
    /\ attempt = 0
    /\ invocations = 0
    /\ sleeps = <<>>
    /\ answers = <<>>
    /\ rpc = "idle"
    /\ rresult = [kind |-> "none"]

\* retry_with_backoff(func) is called
RetryCall ==
    /\ rpc = "idle"
    /\ rpc' = "run"
    /\ attempt' = 0
    /\ UNCHANGED <<parseVars, opVars, mainVars, max_retries, base_delay, invocations, sleeps,
                   answers, rresult>>

\* one iteration of the loop: func() is invoked and does `outcome`; what it returns is
\* told apart by the number of the invocation that returned it
RetryInvoke ==
    /\ rpc = "run"
    /\ \E outcome \in FuncOutcomes :
         LET it == RetryIteration(outcome, attempt, max_retries)
         IN  /\ invocations' = invocations + 1
             /\ answers' = Append(answers, outcome)
             /\ IF it = "sleep"
                THEN /\ sleeps' = Append(sleeps, BackoffDelay(base_delay, attempt))
                     /\ attempt' = attempt + 1
                     /\ UNCHANGED <<rpc, rresult>>
                ELSE /\ rpc' = "done"
                     /\ rresult' = IF it = "return"
                                   THEN [kind |-> "return", value |-> invocations + 1]
                                   ELSE [kind |-> "raise", exc |-> outcome]
                     /\ UNCHANGED <<sleeps, attempt>>
    /\ UNCHANGED <<parseVars, opVars, mainVars, max_retries, base_delay>>

NextRetry == RetryCall \/ RetryInvoke

SpecRetry == InitRetry /\ [][NextRetry]_vars

(***************************************************************************)
(* SpecParse: parse_lock_scope applied to a bounded set of scope strings   *)
(***************************************************************************)

\* the longest tail, in segments, appended to a head
MaxTail == 5

Segments == {"", "resourcegroups", "providers", "Providers", "a", "b"}

Heads == { <<"", "subscriptions", "S">>,
           <<"", "subscriptions", "S", "resourcegroups">>,
           <<"", "subscriptions", "S", "resourcegroups", "rg">>,
           <<"", "subscriptions", "S", "resourceGroups", "rg">> }

\* the sequences of at most n segments
Tails(n) == UNION {[1..k -> Segments] : k \in 0..n}

\* the scope strings parsed: a head followed by at most n more segments
ScopeInputs(n) == {h \o t : h \in Heads, t \in Tails(n)}

RetryIdle ==
    /\ max_retries = DefaultMaxRetries
    /\ base_delay = DefaultBaseDelay
    /\ attempt = 0
    /\ invocations = 0
    /\ sleeps = <<>>
    /\ answers = <<>>
    /\ rpc = "off"
    /\ rresult = [kind |-> "none"]

InitParse ==
    /\ lock_id = <<"">>
    /\ scope \in ScopeInputs(MaxTail)
    /\ parsed = [type |-> "none"]
    /\ pstep = "input"
    /\ RetryIdle
    /\ OpsIdle

\* the call parse_lock_scope(scope)
Parse ==
    /\ pstep = "input"
    /\ parsed' = parse_lock_scope(scope)
    /\ pstep' = "done"
    /\ UNCHANGED <<lock_id, scope, retryVars, retryOnlyVars, opVars, mainVars>>

NextParse == Parse

SpecParse == InitParse /\ [][NextParse]_vars

(***************************************************************************)
(* The gateway: the remote lock service behind ManagementLockClient        *)
(***************************************************************************)

\* the subscription the client is constructed for
subscription_id == "S"

SubscriptionScope == <<"", "subscriptions", subscription_id>>

\* the id of the lock `name` at `sc`: sc + "/providers/Microsoft.Authorization/locks/" + name
LockId(sc, name) == sc \o <<"providers", "Microsoft.Authorization", "locks", name>>

\* a ManagementLockObject; the code reads id and name, the gateway keys it by scope and name
Lock(sc, name) == [scope |-> sc, name |-> name, id |-> LockId(sc, name)]

LockSub == Lock(SubscriptionScope, "n1")

LockRG == Lock(SubscriptionScope \o <<"resourceGroups", "rg">>, "n2")

LockRes == Lock(SubscriptionScope \o <<"resourceGroups", "rg", "providers",
                                       "Microsoft.Storage", "storageAccounts", "acct">>, "n3")

\* a lock whose scope the parser rejects: a providers section without a resource name
LockBad == Lock(SubscriptionScope \o <<"resourceGroups", "rg", "providers",
                                       "Microsoft.Storage", "storageAccounts">>, "n4")

Universe == {LockSub, LockRG, LockRes, LockBad}

\* the scope a delete operation addresses
TargetScope(call) ==
    CASE call.op = "delete_at_subscription_level" -> SubscriptionScope
      [] call.op = "delete_at_resource_group_level" ->
            SubscriptionScope \o <<"resourcegroups">> \o call.resource_group_name
      [] call.op = "delete_at_resource_level" ->
            SubscriptionScope \o <<"resourcegroups">> \o call.resource_group_name
                \o <<"providers">> \o call.resource_provider_namespace
                \o call.resource_type \o call.resource_name

\* the locks of `store` a delete operation addresses (scopes compare case-insensitively)
Addressed(store, call) ==
    {l \in store : /\ l.name = call.lock_name
                   /\ LowerStr(l.scope) = LowerStr(TargetScope(call))}

\* what the gateway can do with a delete operation: [raises, store], the exception
\* raised ("ok" for none) and the locks held afterwards.  A lock that is there is
\* deleted, or deleted with the response lost, or the call fails and changes nothing;
\* a delete of a lock that is not there is answered NotFound, or fails.
DeleteAnswers(store, call) ==
    LET hit == Addressed(store, call)
        failures == {[raises |-> k, store |-> store] :
                       k \in {"ServiceRequestError", "HttpResponseError_403",
                              "HttpResponseError_500", "Exception"}}
    IN  IF hit # {}
        THEN failures \cup {[raises |-> "ok", store |-> store \ hit],
                            [raises |-> "ServiceRequestError", store |-> store \ hit]}
        ELSE failures \cup {[raises |-> "ResourceNotFoundError", store |-> store]}

\* every order of the elements of a finite set
RECURSIVE Orders(_)
Orders(S) == IF S = {} THEN {<<>>}
             ELSE UNION {{<<x>> \o o : o \in Orders(S \ {x})} : x \in S}

\* what the gateway can do with list_at_subscription_level: [raises, value]; the order
\* of the locks returned is the gateway's choice
ListAnswers(store) ==
    {[raises |-> "ok", value |-> o] : o \in Orders(store)}
    \cup {[raises |-> k, value |-> <<>>] :
            k \in {"ResourceNotFoundError", "ServiceRequestError", "HttpResponseError_403",
                   "HttpResponseError_500", "Exception"}}

(***************************************************************************)
(* auth.py                                                                 *)
(***************************************************************************)

\* mutant: the client is constructed anew on every use
ClientOutcomes_Reconstruct(c) == {"ready", "AuthenticationError", "AzureClientError"}

\* AzureAuthManager.client: the handle is there, or _initialize_client constructs it or
\* raises AuthenticationError / AzureClientError, leaving _client None
ClientOutcomes(c) ==
    IF c = "ready" THEN {"ready"}
    ELSE {"ready", "AuthenticationError", "AzureClientError"}

(***************************************************************************)
(* operations.py                                                           *)
(***************************************************************************)

\* mutant: the scope is cut down to the subscription
ScopeOfId_Subscription(id) == SubSeq(id, 1, 3)

\* lock.id.split("/providers/Microsoft.Authorization/locks/")[0]
ScopeOfId(id) ==
    LET cuts == {j \in 2..(Len(id) - 3) : /\ id[j] = "providers"
                                          /\ id[j + 1] = "Microsoft.Authorization"
                                          /\ id[j + 2] = "locks"}
    IN  IF cuts = {} THEN id ELSE SubSeq(id, 1, Least(cuts) - 1)

\* mutant: list_locks swallows every failure of the enumeration
list_locks_handlers_SwallowAll(exc) == [kind |-> "return", value |-> <<>>]

\* mutant: the except ResourceNotFoundError clause is missing
list_locks_handlers_NoNotFound(exc) == [kind |-> "raise", exc |-> exc]

\* the except clauses of list_locks: what it returns or raises when the retried
\* enumeration raised exc
list_locks_handlers(exc) ==
    IF exc = "ResourceNotFoundError" THEN [kind |-> "return", value |-> <<>>]
    ELSE [kind |-> "raise", exc |-> exc]

\* mutant: except HttpResponseError comes first and takes ResourceNotFoundError too
remove_lock_handlers_HttpFirst(exc) ==
    IF IsHttpResponseError(exc) THEN FALSE
    ELSE IF exc = "ResourceNotFoundError" THEN TRUE
    ELSE FALSE

\* mutant: a 403 is logged and taken for a success
remove_lock_handlers_ForbiddenIsSuccess(exc) ==
    IF exc = "ResourceNotFoundError" THEN TRUE
    ELSE IF IsHttpResponseError(exc) THEN status_code(exc) = 403
    ELSE FALSE

\* mutant: an InvalidScopeError is taken for a lock that is gone
remove_lock_handlers_InvalidScopeIsSuccess(exc) ==
    IF exc \in {"ResourceNotFoundError", "InvalidScopeError"} THEN TRUE
    ELSE IF IsHttpResponseError(exc) THEN FALSE
    ELSE FALSE

\* the except clauses of remove_lock: what it returns when the retried delete raised exc
remove_lock_handlers(exc) ==
    IF exc = "ResourceNotFoundError" THEN TRUE
    ELSE IF IsHttpResponseError(exc) THEN FALSE
    ELSE FALSE

\* mutant: a resource lock is deleted with the resource-group operation
_execute_delete_operation_GroupForResource(scope_info, lock_name) ==
    IF scope_info.type \in {"resource_group", "resource"}
    THEN [op |-> "delete_at_resource_group_level",
          resource_group_name |-> scope_info.resource_group_name,
          lock_name |-> lock_name]
    ELSE [op |-> "delete_at_subscription_level", lock_name |-> lock_name]

\* LockOperations._execute_delete_operation after the parse: the gateway operation invoked
\* for scope_info, with its arguments
_execute_delete_operation(scope_info, lock_name) ==
    IF scope_info.type = "resource_group"
    THEN [op |-> "delete_at_resource_group_level",
          resource_group_name |-> scope_info.resource_group_name,
          lock_name |-> lock_name]
    ELSE IF scope_info.type = "resource"
    THEN [op |-> "delete_at_resource_level",
          resource_group_name |-> scope_info.resource_group_name,
          resource_provider_namespace |-> scope_info.provider,
          resource_type |-> scope_info.resource_type,
          resource_name |-> scope_info.resource_name,
          lock_name |-> lock_name]
    ELSE [op |-> "delete_at_subscription_level", lock_name |-> lock_name]

\* mutant: the dry-run test is the wrong way round
remove_lock_mode_Inverted(dry) == IF dry THEN "delete" ELSE "dry_run"

\* mutant: the dry-run test is missing
remove_lock_mode_NoDryRun(dry) == "delete"

\* the first test of remove_lock: "dry_run" when it only logs and returns True, "delete"
\* when it goes on to the retried delete
remove_lock_mode(dry) == IF dry THEN "dry_run" ELSE "delete"

\* mutant: the else is missing, every lock is counted as failed too
CountOutcome_DoubleCount(b, success, failed) ==
    IF b THEN <<success + 1, failed + 1>> ELSE <<success, failed + 1>>

\* mutant: the two branches are the wrong way round
CountOutcome_Swapped(b, success, failed) ==
    IF b THEN <<success, failed + 1>> ELSE <<success + 1, failed>>

\* mutant: a failed removal is not counted
CountOutcome_DropFailure(b, success, failed) ==
    IF b THEN <<success + 1, failed>> ELSE <<success, failed>>

\* the if/else of the loop of remove_all_locks: the two counters after remove_lock returned b
CountOutcome(b, success, failed) ==
    IF b THEN <<success + 1, failed>> ELSE <<success, failed + 1>>

\* the summary remove_all_locks returns
Summary(total, success, failed) == [total |-> total, success |-> success, failed |-> failed]

(***************************************************************************)
(* SpecScope: the first lines of remove_lock, the scope derived from       *)
(* lock.id and handed to the parser, for locks at scopes of the three      *)
(* shapes                                                                  *)
(***************************************************************************)

\* /subscriptions/{subId}/resourcegroups/{rgName}
GroupScopes ==
    {SubscriptionScope \o <<kw, rg>> : kw \in {"resourceGroups", "resourcegroups"},
                                       rg \in {"rg", "locks"}}

\* /subscriptions/{subId}/resourcegroups/{rgName}/providers/{provider}/{type}/{name...}
ResourceScopes ==
    {g \o <<"providers", p, t>> \o n :
        g \in GroupScopes,
        p \in {"Microsoft.Storage", "Microsoft.Authorization"},
        t \in {"storageAccounts", "locks"},
        n \in {<<"acct">>, <<"acct", "queues", "q">>}}

\* scopes of the three shapes
LockScopes == {SubscriptionScope} \cup GroupScopes \cup ResourceScopes

InitScope ==
    /\ lock_id \in {LockId(sc, name) : sc \in LockScopes, name \in {"n1", "locks"}}
    /\ scope = <<"">>
    /\ parsed = [type |-> "none"]
    /\ pstep = "id"
    /\ RetryIdle
    /\ OpsIdle

\* lock_scope = lock.id.split("/providers/Microsoft.Authorization/locks/")[0]
Derive ==
    /\ pstep = "id"
    /\ scope' = ScopeOfId(lock_id)
    /\ pstep' = "input"
    /\ UNCHANGED <<lock_id, parsed, retryVars, retryOnlyVars, opVars, mainVars>>

NextScope == Derive \/ Parse

SpecScope == InitScope /\ [][NextScope]_vars

(***************************************************************************)
(* Spec: one AzureLockRemover, its caller and the gateway                  *)
(***************************************************************************)

\* the most locks the gateway holds initially
MaxLocks == 2

\* the most public calls made on one remover by a caller other than main (SpecApi)
MaxCalls == 2

\* the state after AzureLockRemover(subscription_id, dry_run), over a gateway whose
\* locks are one of `stores`; the work counters are kept when `meter` says so
ConstructedWith(stores, meter) ==
    /\ ParseIdle
    /\ max_retries = DefaultMaxRetries
    /\ base_delay = DefaultBaseDelay
    /\ attempt = 0
    /\ invocations = 0
    /\ sleeps = <<>>
    /\ answers = <<>>
    /\ rpc = "off"
    /\ rresult = [kind |-> "none"]
    /\ dry_run \in BOOLEAN
    /\ client = "none"
    /\ gw \in stores
    /\ pc = "idle"
    /\ op = "none"
    /\ locks = <<>>
    /\ idx = 0
    /\ success_count = 0
    /\ failure_count = 0
    /\ processed = <<>>
    /\ result = [kind |-> "none"]
    /\ prev = NoCall
    /\ lastCall = [idx |-> 0]
    /\ enumerated = FALSE
    /\ lastAnswer = "none"
    /\ ncalls = 0
    /\ metered = meter
    /\ gateway_calls = 0
    /\ slept = 0

Constructed(stores) == ConstructedWith(stores, FALSE)

\* a finished public call, for prev: its method, the lock it was given and how it ended
Ended(method, ls, r) ==
    [op |-> method,
     lock |-> IF method = "remove_lock" THEN ls[1].name ELSE "none",
     outcome |-> IF r.kind = "raise" THEN "raised"
                 ELSE IF method = "remove_lock" THEN (IF r.value THEN "True" ELSE "False")
                 ELSE "returned"]

\* the part of every public call's entry that the model shares
Enter(method) ==
    /\ pc = "idle"
    /\ ncalls' = ncalls + 1
    /\ op' = method
    /\ prev' = IF op = "none" THEN NoCall ELSE Ended(op, locks, result)
    /\ attempt' = 0
    /\ invocations' = 0
    /\ sleeps' = <<>>
    /\ success_count' = 0
    /\ failure_count' = 0
    /\ processed' = <<>>
    /\ result' = [kind |-> "running"]
    /\ lastCall' = [idx |-> 0]
    /\ enumerated' = FALSE
    /\ lastAnswer' = "none"
    /\ gateway_calls' = 0
    /\ slept' = 0
    /\ UNCHANGED <<mainVars, parseVars, retryOnlyVars, max_retries, base_delay, dry_run,
                   metered, client,
                   gw>>

\* the caller calls remove_all_locks(), which calls list_locks()
Call_remove_all_locks ==
    /\ Enter("remove_all_locks")
    /\ pc' = "list"
    /\ locks' = <<>>
    /\ idx' = 0

\* the caller calls list_locks()
Call_list_locks ==
    /\ Enter("list_locks")
    /\ pc' = "list"
    /\ locks' = <<>>
    /\ idx' = 0

\* the caller calls remove_lock(lock)
Call_remove_lock ==
    \E lock \in Universe :
        /\ Enter("remove_lock")
        /\ pc' = "loop"
        /\ locks' = <<lock>>
        /\ idx' = 1

\* the public call returns or raises r
Finish(r) ==
    /\ pc' = "idle"
    /\ result' = r

\* one invocation of _list_locks inside retry_with_backoff, and everything list_locks and
\* remove_all_locks do until the next invocation of a retried function
ListAttempt ==
    /\ pc = "list"
    /\ \E c \in ClientOutcomes(client), a \in ListAnswers(gw) :
         LET outcome == IF c = "ready" THEN a.raises ELSE c
             it      == RetryIteration(outcome, attempt, max_retries)
             listed  == IF it = "return" THEN [kind |-> "return", value |-> a.value]
                        ELSE list_locks_handlers(outcome)
         IN  /\ client' = IF c = "ready" THEN "ready" ELSE client
             /\ enumerated' = (enumerated \/ c = "ready")
             /\ lastAnswer' = outcome
             /\ gateway_calls' = IF metered /\ c = "ready" THEN gateway_calls + 1
                                 ELSE gateway_calls
             /\ slept' = IF metered /\ it = "sleep" THEN slept + 1 ELSE slept
             /\ IF it = "sleep"
                THEN /\ sleeps' = Append(sleeps, BackoffDelay(base_delay, attempt))
                     /\ attempt' = attempt + 1
                     /\ invocations' = invocations + 1
                     /\ UNCHANGED <<pc, locks, idx, result>>
                ELSE IF listed.kind = "raise"
                THEN /\ Finish(listed)
                     /\ invocations' = invocations + 1
                     /\ UNCHANGED <<sleeps, attempt, locks, idx>>
                ELSE IF op = "list_locks"
                THEN /\ locks' = listed.value
                     /\ Finish(listed)
                     /\ invocations' = invocations + 1
                     /\ UNCHANGED <<sleeps, attempt, idx>>
                ELSE IF listed.value = <<>>
                THEN /\ locks' = listed.value
                     /\ Finish([kind |-> "return", value |-> Summary(0, 0, 0)])
                     /\ invocations' = invocations + 1
                     /\ UNCHANGED <<sleeps, attempt, idx>>
                ELSE /\ locks' = listed.value
                     /\ pc' = "loop"
                     /\ idx' = 1
                     /\ invocations' = 0
                     /\ sleeps' = <<>>
                     /\ attempt' = 0
                     /\ UNCHANGED result
    /\ UNCHANGED <<mainVars, parseVars, retryOnlyVars, max_retries, base_delay, dry_run,
                   metered, gw, op, prev,
                   success_count, failure_count, processed, lastCall, ncalls>>

\* mutant: the loop of remove_all_locks leaves out the lock after the one just processed
AfterRemoveLock_SkipLock(b) ==
    LET counted == CountOutcome(b, success_count, failure_count)
        success == counted[1]
        failed  == counted[2]
    IN  /\ processed' = Append(processed, b)
        /\ IF op = "remove_lock"
           THEN /\ Finish([kind |-> "return", value |-> b])
                /\ UNCHANGED <<success_count, failure_count, idx, locks>>
           ELSE /\ success_count' = success
                /\ failure_count' = failed
                /\ IF idx + 1 >= Len(locks)
                   THEN /\ Finish([kind |-> "return",
                                   value |-> Summary(Len(locks), success, failed)])
                        /\ UNCHANGED <<idx, locks>>
                   ELSE /\ idx' = idx + 2
                        /\ UNCHANGED <<pc, result, locks>>

\* mutant: the loop of remove_all_locks stops at the first lock whose removal failed
AfterRemoveLock_AbortOnFailure(b) ==
    LET counted == CountOutcome(b, success_count, failure_count)
        success == counted[1]
        failed  == counted[2]
    IN  /\ processed' = Append(processed, b)
        /\ IF op = "remove_lock"
           THEN /\ Finish([kind |-> "return", value |-> b])
                /\ UNCHANGED <<success_count, failure_count, idx, locks>>
           ELSE /\ success_count' = success
                /\ failure_count' = failed
                /\ IF idx = Len(locks) \/ ~b
                   THEN /\ Finish([kind |-> "return",
                                   value |-> Summary(Len(locks), success, failed)])
                        /\ UNCHANGED <<idx, locks>>
                   ELSE /\ idx' = idx + 1
                        /\ UNCHANGED <<pc, result, locks>>

\* remove_lock has returned b for locks[idx]: the rest of the loop body of remove_all_locks,
\* and its return after the last lock; or the return of a direct remove_lock
AfterRemoveLock(b) ==
    LET counted == CountOutcome(b, success_count, failure_count)
        success == counted[1]
        failed  == counted[2]
    IN  /\ processed' = Append(processed, b)
        /\ IF op = "remove_lock"
           THEN /\ Finish([kind |-> "return", value |-> b])
                /\ UNCHANGED <<success_count, failure_count, idx, locks>>
           ELSE /\ success_count' = success
                /\ failure_count' = failed
                /\ IF idx = Len(locks)
                   THEN /\ Finish([kind |-> "return",
                                   value |-> Summary(Len(locks), success, failed)])
                        /\ UNCHANGED <<idx, locks>>
                   ELSE /\ idx' = idx + 1
                        /\ UNCHANGED <<pc, result, locks>>

\* remove_lock(locks[idx]) in dry-run mode
RemoveLockDryRun ==
    /\ pc = "loop"
    /\ remove_lock_mode(dry_run) = "dry_run"
    /\ AfterRemoveLock(TRUE)
    /\ UNCHANGED <<mainVars, parseVars, retryVars, retryOnlyVars, dry_run,
                   metered, client, gw, op, prev,
                   lastCall, enumerated, lastAnswer, ncalls,
                   gateway_calls, slept>>

\* one invocation of _delete_lock inside retry_with_backoff for locks[idx], and everything
\* remove_lock and remove_all_locks do until the next invocation of a retried function
DeleteAttempt ==
    /\ pc = "loop"
    /\ remove_lock_mode(dry_run) = "delete"
    /\ LET lock       == locks[idx]
           lock_name  == lock.name
           lock_scope == ScopeOfId(lock.id)
           scope_info == parse_lock_scope(lock_scope)
           call       == _execute_delete_operation(scope_info, lock_name)
       IN  \E c \in IF IsExc(scope_info) THEN {"unused"} ELSE ClientOutcomes(client) :
           \E a \in IF IsExc(scope_info) \/ c # "ready"
                    THEN {[raises |-> "unused", store |-> gw]}
                    ELSE DeleteAnswers(gw, call) :
             LET invoked == ~IsExc(scope_info) /\ c = "ready"
                 outcome == IF IsExc(scope_info) THEN scope_info.exc
                            ELSE IF c # "ready" THEN c
                            ELSE a.raises
                 it      == RetryIteration(outcome, attempt, max_retries)
             IN  /\ client' = IF invoked THEN "ready" ELSE client
                 /\ lastCall' = IF invoked THEN [idx |-> idx, call |-> call] ELSE lastCall
                 /\ gw' = a.store
                 /\ lastAnswer' = outcome
                 /\ gateway_calls' = IF metered /\ invoked THEN gateway_calls + 1
                                     ELSE gateway_calls
                 /\ slept' = IF metered /\ it = "sleep" THEN slept + 1 ELSE slept
                 /\ IF it = "sleep"
                    THEN /\ sleeps' = Append(sleeps, BackoffDelay(base_delay, attempt))
                         /\ attempt' = attempt + 1
                         /\ invocations' = invocations + 1
                         /\ UNCHANGED <<pc, locks, idx, result, success_count,
                                        failure_count, processed>>
                    ELSE /\ AfterRemoveLock(IF it = "return" THEN TRUE
                                            ELSE remove_lock_handlers(outcome))
                         /\ IF pc' = "idle"
                            THEN /\ invocations' = invocations + 1
                                 /\ UNCHANGED <<sleeps, attempt>>
                            ELSE /\ invocations' = 0
                                 /\ sleeps' = <<>>
                                 /\ attempt' = 0
    /\ UNCHANGED <<mainVars, parseVars, retryOnlyVars, max_retries, base_delay, dry_run,
                   metered, op, prev,
                   enumerated, ncalls>>

\* somebody else deletes a lock while remove_lock or the loop of remove_all_locks runs
\* (a change made before the enumeration is a different initial store)
ExternalDelete ==
    /\ pc = "loop"
    /\ \E l \in gw : gw' = gw \ {l}
    /\ UNCHANGED <<mainVars, parseVars, retryVars, retryOnlyVars, dry_run,
                   metered, client, pc, op, locks, idx,
                   success_count, failure_count, processed, result, prev, lastCall,
                   enumerated, lastAnswer, ncalls,
                   gateway_calls, slept>>

\* somebody else creates a lock while remove_lock or the loop of remove_all_locks runs
ExternalCreate ==
    /\ pc = "loop"
    /\ \E l \in Universe \ gw : gw' = gw \cup {l}
    /\ UNCHANGED <<mainVars, parseVars, retryVars, retryOnlyVars, dry_run,
                   metered, client, pc, op, locks, idx,
                   success_count, failure_count, processed, result, prev, lastCall,
                   enumerated, lastAnswer, ncalls,
                   gateway_calls, slept>>

\* utils.validate_subscription_id, on the length and the number of hyphens of the string
validate_subscription_id(sid) == sid.length = 36 /\ sid.hyphens = 4

\* the subscription ids main is started with, by length and number of hyphens
IdShapes == [length : {35, 36, 37}, hyphens : {3, 4, 5}]

\* mutant: main exits with 1 when a removal failed
ExitCodeFor_FailedCounts(r) ==
    IF r.kind = "raise" THEN 1
    ELSE IF r.value.failed > 0 THEN 1
    ELSE 0

\* the exit code of main after remover.remove_all_locks() returned or raised r: the
\* except clauses call sys.exit(1), the normal end of main is exit code 0
ExitCodeFor(r) == IF r.kind = "raise" THEN 1 ELSE 0

\* main(): the id is valid, one remover, one call of remove_all_locks
Main ==
    /\ mpc = "running"
    /\ ncalls = 0
    /\ validate_subscription_id(subscription)
    /\ Call_remove_all_locks

\* main(): the id is not valid, sys.exit(1) before a remover is constructed
MainInvalid ==
    /\ mpc = "running"
    /\ ncalls = 0
    /\ ~validate_subscription_id(subscription)
    /\ mpc' = "exited"
    /\ exit_code' = 1
    /\ UNCHANGED <<subscription, parseVars, retryVars, retryOnlyVars, opVars>>

\* main(): remove_all_locks has returned or raised; the summary is logged and main ends,
\* or the exception is logged and main calls sys.exit(1)
MainExit ==
    /\ mpc = "running"
    /\ ncalls = 1
    /\ pc = "idle"
    /\ mpc' = "exited"
    /\ exit_code' = ExitCodeFor(result)
    /\ UNCHANGED <<subscription, parseVars, retryVars, retryOnlyVars, opVars>>

\* main() is started; the remover-to-be and the gateway are as after construction
Init ==
    /\ Constructed({g \in SUBSET Universe : Cardinality(g) <= MaxLocks})
    /\ subscription \in IdShapes
    /\ mpc = "running"
    /\ exit_code = 0

Next ==
    \/ Main
    \/ MainInvalid
    \/ MainExit
    \/ ListAttempt
    \/ RemoveLockDryRun
    \/ DeleteAttempt
    \/ ExternalDelete
    \/ ExternalCreate

\* a run of main.py against a gateway that others change too
Spec == Init /\ [][Next]_vars

\* DeleteAttempt can be taken: its guard, the gateway always having an answer
DeleteAttemptEnabled == pc = "loop" /\ remove_lock_mode(dry_run) = "delete"

\* the same run with the program making progress: every gateway call and every sleep
\* returns, so the enumeration and the removal of the current lock go on.  The last
\* conjunct is WF_vars(DeleteAttempt) with ENABLED written out as DeleteAttemptEnabled.
FairSpec ==
    /\ Spec
    /\ WF_vars(ListAttempt)
    /\ WF_vars(RemoveLockDryRun)
    /\ ([]<>(~DeleteAttemptEnabled) \/ []<><<DeleteAttempt>>_vars)

(***************************************************************************)
(* SpecApi: a caller of the AzureLockRemover facade (client.py) making     *)
(* several public calls on one remover; the gateway holds at most one lock *)
(* and others may delete it                                                *)
(***************************************************************************)

ApiCall ==
    /\ ncalls < MaxCalls
    /\ \/ Call_remove_all_locks
       \/ Call_list_locks
       \/ Call_remove_lock

InitApi ==
    /\ Constructed({{}} \cup {{l} : l \in Universe})
    /\ NoMain

NextApi ==
    \/ ApiCall
    \/ ListAttempt
    \/ RemoveLockDryRun
    \/ DeleteAttempt
    \/ ExternalDelete

SpecApi == InitApi /\ [][NextApi]_vars

(***************************************************************************)
(* SpecGone: remove_all_locks, not in dry-run mode, against a gateway that *)
(* also holds a lock on a resource in a resource group named providers;    *)
(* others may delete locks, nobody creates one                             *)
(***************************************************************************)

\* a lock on a storage account in the resource group named providers
LockProv == Lock(SubscriptionScope \o <<"resourceGroups", "providers", "providers",
                                        "Microsoft.Storage", "storageAccounts", "acct">>, "n5")

GoneUniverse == Universe \cup {LockProv}

InitGone ==
    /\ Constructed({g \in SUBSET GoneUniverse : Cardinality(g) <= MaxLocks})
    /\ dry_run = FALSE
    /\ NoMain

\* the one call of remove_all_locks
CallGone ==
    /\ ncalls = 0
    /\ Call_remove_all_locks

NextGone ==
    \/ CallGone
    \/ ListAttempt
    \/ DeleteAttempt
    \/ ExternalDelete

SpecGone == InitGone /\ [][NextGone]_vars

(***************************************************************************)
(* SpecAlone: remove_all_locks, not in dry-run mode, with nobody else      *)
(* changing the gateway's locks                                            *)
(***************************************************************************)

InitAlone ==
    /\ Constructed({g \in SUBSET Universe : Cardinality(g) <= MaxLocks})
    /\ dry_run = FALSE
    /\ NoMain

NextAlone ==
    \/ CallGone
    \/ ListAttempt
    \/ DeleteAttempt

SpecAlone == InitAlone /\ [][NextAlone]_vars

(***************************************************************************)
(* FairWork: remove_all_locks run to its end with its gateway calls and    *)
(* its sleeps counted, others deleting locks meanwhile                     *)
(***************************************************************************)

InitWork ==
    /\ ConstructedWith({g \in SUBSET Universe : Cardinality(g) <= MaxLocks}, TRUE)
    /\ NoMain

NextWork ==
    \/ CallGone
    \/ ListAttempt
    \/ RemoveLockDryRun
    \/ DeleteAttempt
    \/ ExternalDelete

SpecWork == InitWork /\ [][NextWork]_vars

\* every gateway call and every sleep returns, as in FairSpec
FairWork ==
    /\ SpecWork
    /\ WF_vars(ListAttempt)
    /\ WF_vars(RemoveLockDryRun)
    /\ ([]<>(~DeleteAttemptEnabled) \/ []<><<DeleteAttempt>>_vars)

(***************************************************************************)
(* Properties                                                              *)
(***************************************************************************)

\* how many of the removals processed so far returned True
Succeeded == Cardinality({i \in 1..Len(processed) : processed[i]})

\* remove_all_locks has returned its summary
ReturnedSummary == op = "remove_all_locks" /\ pc = "idle" /\ result.kind = "return"

C1_Counters ==
    /\ success_count + failure_count = Len(processed)
    /\ success_count = Succeeded
    /\ success_count + failure_count <= Len(locks)
    /\ (op = "remove_all_locks" /\ pc = "loop") => Len(processed) = idx - 1
    /\ ReturnedSummary =>
          /\ result.value.total = Len(locks)
          /\ result.value.success = success_count
          /\ result.value.failed = failure_count
          /\ result.value.success + result.value.failed = result.value.total

C1_Monotone == success_count' >= success_count /\ failure_count' >= failure_count

\* C1: aggregate conservation.  Whenever remove_all_locks returns, total is the number
\* of enumerated locks and success + failed = total; inside the loop success_count +
\* failure_count is the number of locks already processed, so success + failed <= total;
\* and no step decreases either counter.
C1_AggregateConservation == []C1_Counters /\ [][C1_Monotone]_vars

\* a run over two locks that removed one and failed on the other
C1_Witness ==
    /\ ReturnedSummary
    /\ ~dry_run
    /\ result.value = Summary(2, 1, 1)

\* C2: dry-run purity.  With dry_run set no gateway delete operation is ever invoked,
\* every remove_lock returns True, and the only changes of the gateway's locks are those
\* made by others.
C2_DryRunPurity ==
    /\ [](dry_run => /\ lastCall.idx = 0
                     /\ \A i \in 1..Len(processed) : processed[i])
    /\ [][dry_run => (gw' = gw \/ ExternalDelete \/ ExternalCreate)]_vars

\* a dry run over two locks, one of them with a scope the parser rejects, has returned
C2_Witness ==
    /\ ReturnedSummary
    /\ dry_run
    /\ Len(locks) = 2
    /\ LockBad \in {locks[1], locks[2]}
    /\ {locks[1], locks[2]} \subseteq gw

\* remove_lock has just returned for the last lock of processed, and lastAnswer is what
\* the last invocation of its retried delete did
JustRemoved == processed # <<>> /\ (pc = "idle" \/ invocations = 0)

\* C3: idempotent deletion.  Not in dry-run mode, a remove_lock whose retried delete ends
\* in NotFound returns True, in remove_all_locks and called directly; so a second
\* remove_lock on a lock that the first one deleted, or that somebody else deleted after
\* the enumeration, returns True as well.  (A NotFound on an attempt that is not the last
\* permitted one is retried like every HttpResponseError; the answer that ends the
\* retried delete is the one that decides.)
C3_IdempotentDeletion ==
    (~dry_run /\ JustRemoved /\ lastAnswer = "ResourceNotFoundError")
        => /\ processed[Len(processed)] = TRUE
           /\ (op = "remove_lock" /\ pc = "idle") => result = [kind |-> "return", value |-> TRUE]

\* remove_lock called twice on one lock: the first call deleted it and returned True, the
\* second found it gone on every attempt and returned True
C3_Witness ==
    /\ ~dry_run
    /\ pc = "idle"
    /\ op = "remove_lock"
    /\ prev = [op |-> "remove_lock", lock |-> locks[1].name, outcome |-> "True"]
    /\ locks[1] \notin gw
    /\ lastAnswer = "ResourceNotFoundError"
    /\ result = [kind |-> "return", value |-> TRUE]

\* every invocation so far raised a transient failure
AlwaysTransient ==
    \A i \in 1..Len(answers) : answers[i] \in {"ServiceRequestError", "HttpResponseError_500"}

\* C4: back-off timing.  For an operation that raises a transient failure on every
\* invocation, retry_with_backoff(max_retries = M, base_delay = d) invokes it M + 1 times,
\* sleeps M times, d * 2^(k-1) before attempt k, not after the last attempt, and then
\* raises that attempt's failure.
C4_BackoffTiming ==
    AlwaysTransient =>
        /\ invocations = Len(answers)
        /\ invocations <= max_retries + 1
        /\ \A k \in 1..Len(sleeps) : sleeps[k] = base_delay * (2 ^ (k - 1))
        /\ rpc = "run" => Len(sleeps) = invocations /\ attempt = invocations
        /\ rpc = "done" => /\ invocations = max_retries + 1
                           /\ Len(sleeps) = max_retries
                           /\ rresult = [kind |-> "raise", exc |-> answers[max_retries + 1]]

\* max_retries = 3, base_delay = 1: four attempts, sleeps of 1, 2 and 4 seconds, then the
\* failure of the fourth attempt
C4_Witness ==
    /\ rpc = "done"
    /\ max_retries = 3
    /\ base_delay = 1
    /\ answers = <<"ServiceRequestError", "HttpResponseError_500", "ServiceRequestError",
                   "HttpResponseError_500">>
    /\ sleeps = <<1, 2, 4>>
    /\ rresult = [kind |-> "raise", exc |-> "HttpResponseError_500"]

\* the failures outside (ServiceRequestError, HttpResponseError)
NotRetried == {"InvalidScopeError", "Exception"}

\* C5: only the transient class is retried.  A failure outside (ServiceRequestError,
\* HttpResponseError) on attempt k propagates at once: the operation has been invoked
\* k + 1 times, nothing is invoked and no sleep happens after it, and every sleep
\* follows a failure of the transient class.
C5_OnlyTransientRetried ==
    /\ \A i \in 1..Len(answers) :
          answers[i] \in NotRetried =>
              /\ i = Len(answers)
              /\ rpc = "done"
              /\ rresult = [kind |-> "raise", exc |-> answers[i]]
              /\ invocations = i
              /\ attempt = i - 1
              /\ Len(sleeps) = i - 1
    /\ \A i \in 1..Len(sleeps) :
          answers[i] \in {"ServiceRequestError", "HttpResponseError_500",
                          "ResourceNotFoundError"}

\* two transient failures, then a failure of another class on attempt 2
C5_Witness ==
    /\ rpc = "done"
    /\ Len(answers) = 3
    /\ answers[3] = "InvalidScopeError"
    /\ max_retries = 3
    /\ Len(sleeps) = 2

\* the segments of s from position i on are non-empty
NamesFrom(s, i) == \A k \in i..Len(s) : s[k] # ""

\* shape 1, /subscriptions/{subId}
Shape1(s) == Len(s) = 3 /\ s[1] = "" /\ s[2] = "subscriptions" /\ NamesFrom(s, 3)

\* shape 2, /subscriptions/{subId}/resourcegroups/{rgName}
Shape2(s) ==
    /\ Len(s) = 5
    /\ s[1] = "" /\ s[2] = "subscriptions" /\ s[4] = "resourcegroups"
    /\ NamesFrom(s, 3)

\* shape 3,
\* /subscriptions/{subId}/resourcegroups/{rgName}/providers/{provider}/{resourceType}/{resourceName...}
Shape3(s) ==
    /\ Len(s) >= 9
    /\ s[1] = "" /\ s[2] = "subscriptions" /\ s[4] = "resourcegroups" /\ s[6] = "providers"
    /\ NamesFrom(s, 3)

\* what the three shapes are to be parsed as
Expected(s) ==
    IF Shape1(s) THEN [type |-> "subscription"]
    ELSE IF Shape2(s) THEN [type |-> "resource_group", resource_group_name |-> <<s[5]>>]
    ELSE [type |-> "resource",
          resource_group_name |-> <<s[5]>>,
          provider |-> <<s[7]>>,
          resource_type |-> <<s[8]>>,
          resource_name |-> SubSeq(s, 9, Len(s))]

\* s has no /resourcegroups/ segment, in any letter case
NoResourceGroups(s) == \A i \in 2..(Len(s) - 1) : Lower(s[i]) # "resourcegroups"

\* C6: parser classification.  Every string of shape 1, 2 or 3 is parsed as the
\* subscription, resource_group or resource variant with the fields as written in the
\* string, and a string without a resourcegroups segment is never rejected.
C6_Classification ==
    pstep = "done" =>
        /\ (Shape1(scope) \/ Shape2(scope) \/ Shape3(scope)) => parsed = Expected(scope)
        /\ NoResourceGroups(scope) => parsed = [type |-> "subscription"]

\* the same with the resource group of a shape 3 string not called `providers`
C6_ExceptGroupNamedProviders ==
    pstep = "done" =>
        /\ (Shape1(scope) \/ Shape2(scope) \/ (Shape3(scope) /\ Lower(scope[5]) # "providers"))
              => parsed = Expected(scope)
        /\ NoResourceGroups(scope) => parsed = [type |-> "subscription"]

\* the shapes read generously: keywords in any letter case, one trailing "/" allowed
Conforms(s) ==
    LET t == IF Len(s) > 1 /\ s[Len(s)] = "" THEN SubSeq(s, 1, Len(s) - 1) ELSE s
        l == [i \in 1..Len(t) |-> IF i \in {2, 4, 6} THEN Lower(t[i]) ELSE t[i]]
    IN  Shape1(l) \/ Shape2(l) \/ Shape3(l)

Rejected(s) ==
    \E i \in 2..(Len(s) - 1) :
        /\ Lower(s[i]) = "resourcegroups"
        /\ \A j \in 2..(i - 1) : Lower(s[j]) # "resourcegroups"
        /\ LET t == After(s, i)
           IN  /\ \E j \in 2..(Len(t) - 1) : t[j] = "providers"
               /\ \E k \in 1..Len(t) :
                     /\ Lower(t[k]) = "providers"
                     /\ \A j \in 1..(k - 1) : Lower(t[j]) # "providers"
                     /\ Len(t) - k < 3

C8_ResourceNameNonEmpty ==
    (pstep = "done" /\ ~IsExc(parsed) /\ parsed.type = "resource")
        => parsed.resource_name # <<"">>

\* the step ends the retried enumeration of the running call
EnumerationEnds == pc = "list" /\ pc' # "list"

\* no delete operation has been invoked and no removal been processed in the running call
NothingDeleted == lastCall.idx = 0 /\ processed = <<>>

C9_Step ==
    (EnumerationEnds /\ op = "remove_all_locks"
       /\ lastAnswer' \notin {"ok", "ResourceNotFoundError"})
        => /\ pc' = "idle"
           /\ result' = [kind |-> "raise", exc |-> lastAnswer']
           /\ IsRetriedClass(lastAnswer') => invocations' = max_retries + 1
           /\ NothingDeleted'
           /\ gw' = gw

C9_Raised ==
    (op = "remove_all_locks" /\ result.kind = "raise")
        => /\ pc = "idle"
           /\ result.exc = lastAnswer
           /\ lastAnswer \notin {"ok", "ResourceNotFoundError"}
           /\ locks = <<>>
           /\ NothingDeleted

\* C9: a failure of the enumeration other than NotFound propagates.  When the retried
\* enumeration of remove_all_locks ends in a failure that is not NotFound (a failure of
\* (ServiceRequestError, HttpResponseError), 403 included, on the last permitted attempt;
\* an authentication or client failure; any other exception), remove_all_locks raises
\* that failure: it returns no summary, and no delete operation is invoked and no
\* removal processed in that call.
C9_EnumerationFailurePropagates == []C9_Raised /\ [][C9_Step]_vars

\* the gateway holds locks, the enumeration was refused with 403 on all four attempts,
\* and remove_all_locks raised it
C9_Witness ==
    /\ op = "remove_all_locks"
    /\ pc = "idle"
    /\ gw # {}
    /\ invocations = max_retries + 1
    /\ result = [kind |-> "raise", exc |-> "HttpResponseError_403"]
    /\ NothingDeleted

\* the value a call that found nothing to enumerate returns
Nothing(method) ==
    [kind |-> "return", value |-> IF method = "list_locks" THEN <<>> ELSE Summary(0, 0, 0)]

C10_Step ==
    (EnumerationEnds
       /\ (lastAnswer' = "ResourceNotFoundError" \/ (lastAnswer' = "ok" /\ locks' = <<>>)))
        => /\ pc' = "idle"
           /\ locks' = <<>>
           /\ result' = Nothing(op)
           /\ NothingDeleted'
           /\ gw' = gw

C10_Returned ==
    (op = "remove_all_locks" /\ pc = "idle" /\ locks = <<>> /\ result.kind = "return")
        => /\ result = Nothing(op)
           /\ lastAnswer \in {"ok", "ResourceNotFoundError"}
           /\ NothingDeleted

\* C10: NotFound at the enumeration is an empty list.  When the retried enumeration ends
\* in NotFound, list_locks returns the empty list instead of raising and remove_all_locks
\* returns {total: 0, success: 0, failed: 0} without invoking a delete operation; the
\* same zero summary is returned when the enumeration succeeds with no locks.
C10_NotFoundIsEmpty == []C10_Returned /\ [][C10_Step]_vars

\* a list_locks that returned, then a remove_all_locks whose enumeration ended in NotFound
\* and that returned the zero summary
C10_Witness ==
    /\ op = "remove_all_locks"
    /\ pc = "idle"
    /\ prev = [op |-> "list_locks", lock |-> "none", outcome |-> "returned"]
    /\ lastAnswer = "ResourceNotFoundError"
    /\ result = [kind |-> "return", value |-> Summary(0, 0, 0)]
    /\ NothingDeleted

\* remove_all_locks is in its loop and the removal of a lock has failed
FailedInLoop ==
    /\ op = "remove_all_locks"
    /\ pc = "loop"
    /\ \E i \in 1..Len(processed) : ~processed[i]

\* remove_all_locks has returned a summary that covers every enumerated lock
ReturnedAll == ReturnedSummary /\ Len(processed) = Len(locks)

C11_State ==
    /\ (op = "remove_all_locks" /\ locks # <<>>) => result.kind # "raise"
    /\ (ReturnedSummary /\ locks # <<>>) => ReturnedAll

C11_Step ==
    (op = "remove_all_locks" /\ pc = "loop" /\ processed' = Append(processed, FALSE))
        => IF idx < Len(locks)
           THEN pc' = "loop" /\ idx' = idx + 1 /\ result' = result
           ELSE ReturnedAll'

\* C11: a per-lock failure never aborts the batch.  Once remove_all_locks has its list,
\* it never raises; when remove_lock fails for the lock at position i (403, another HTTP
\* failure after the retries, an unexpected failure, an invalid scope) the loop goes on
\* with position i + 1, every later lock is processed, and the call returns a summary
\* over all the enumerated locks.
C11_FailureDoesNotAbort ==
    /\ []C11_State
    /\ [][C11_Step]_vars
    /\ (FailedInLoop ~> ReturnedAll)

\* the first of two locks was refused with 403, the second was removed, and the summary
\* counts both
C11_Witness ==
    /\ ReturnedAll
    /\ ~dry_run
    /\ processed = <<FALSE, TRUE>>
    /\ result.value = Summary(2, 1, 1)
    /\ locks[2] \notin gw

\* the answers of a retried delete after which remove_lock returns True
SuccessAnswers == {"ok", "ResourceNotFoundError"}

\* C12: remove_lock returns a boolean and never raises.  Not in dry-run mode, it returns
\* True exactly when its retried delete ends in success or in NotFound, and False when it
\* ends in a 403, another HTTP failure, a service-request failure on the last permitted
\* attempt, an authentication or client failure, an invalid scope or any other exception;
\* a direct call never ends in a raise.
C12_RemoveLockBoolean ==
    /\ (op = "remove_lock" /\ pc = "idle")
          => /\ result.kind = "return"
             /\ result.value \in BOOLEAN
             /\ processed = <<result.value>>
             /\ (IsRetriedClass(lastAnswer) /\ ~dry_run) => invocations = max_retries + 1
    /\ (~dry_run /\ JustRemoved)
          => (processed[Len(processed)] <=> lastAnswer \in SuccessAnswers)

\* a direct remove_lock whose delete failed with a service-request failure on all four
\* attempts returned False, the lock still there
C12_Witness ==
    /\ op = "remove_lock"
    /\ pc = "idle"
    /\ ~dry_run
    /\ lastAnswer = "ServiceRequestError"
    /\ invocations = max_retries + 1
    /\ locks[1] \in gw
    /\ result = [kind |-> "return", value |-> FALSE]

\* the delete operation and arguments the claim prescribes for each lock of Universe
\* whose scope parses
ExpectedCall(lock) ==
    CASE lock = LockSub ->
            [op |-> "delete_at_subscription_level", lock_name |-> "n1"]
      [] lock = LockRG ->
            [op |-> "delete_at_resource_group_level",
             resource_group_name |-> <<"rg">>,
             lock_name |-> "n2"]
      [] lock = LockRes ->
            [op |-> "delete_at_resource_level",
             resource_group_name |-> <<"rg">>,
             resource_provider_namespace |-> <<"Microsoft.Storage">>,
             resource_type |-> <<"storageAccounts">>,
             resource_name |-> <<"acct">>,
             lock_name |-> "n3"]

\* the failures of a delete attempt that come before the gateway is called
BeforeGateway == {"InvalidScopeError", "AuthenticationError", "AzureClientError"}

C13_State ==
    lastCall.idx # 0 =>
        /\ ~dry_run
        /\ locks[lastCall.idx] # LockBad
        /\ lastCall.call = ExpectedCall(locks[lastCall.idx])
        /\ lastCall.call.lock_name = locks[lastCall.idx].name

C13_Step ==
    /\ (DeleteAttempt /\ lastAnswer' \notin BeforeGateway)
          => lastCall' = [idx |-> idx, call |-> ExpectedCall(locks[idx])]
    /\ (DeleteAttempt /\ lastAnswer' \in BeforeGateway) => lastCall' = lastCall
    /\ (DeleteAttempt /\ lastCall.idx = idx) => lastCall'.call = lastCall.call

\* C13: dispatch.  Not in dry-run mode every delete attempt of remove_lock that reaches
\* the gateway invokes one delete operation, the one of the parsed variant:
\* delete_at_subscription_level(lock_name), delete_at_resource_group_level(
\* resource_group_name, lock_name) or delete_at_resource_level(resource_group_name,
\* provider, resource_type, resource_name, lock_name), with the parsed fields and the
\* lock's own name; every retry for the same lock invokes the same operation with the
\* same arguments.
C13_Dispatch == []C13_State /\ [][C13_Step]_vars

\* the delete of a resource lock is being retried: invoked once with the resource-level
\* operation, a sleep taken, the next attempt to come
C13_Witness ==
    /\ pc = "loop"
    /\ attempt >= 1
    /\ locks[idx] = LockRes
    /\ lastCall = [idx |-> idx, call |-> ExpectedCall(LockRes)]

\* where the lock at position i of the enumerated list is in its processing
LockState(i) ==
    IF i <= Len(processed) THEN (IF processed[i] THEN "Succeeded" ELSE "Failed")
    ELSE IF pc = "loop" /\ i = idx /\ invocations > 0 THEN "Attempting"
    ELSE "Pending"

\* the states a lock may be in one step after being in state st
LockSuccessors(st) ==
    CASE st = "Pending" -> IF dry_run THEN {"Pending", "Succeeded"}
                           ELSE {"Pending", "Attempting", "Succeeded", "Failed"}
      [] st = "Attempting" -> {"Attempting", "Succeeded", "Failed"}
      [] st = "Succeeded" -> {"Succeeded"}
      [] st = "Failed" -> {"Failed"}

\* the running call is remove_all_locks and the step stays inside it
InsideRemoveAll == op = "remove_all_locks" /\ ncalls' = ncalls

C14_State ==
    op = "remove_all_locks" =>
        /\ pc = "loop" => /\ idx \in 1..Len(locks)
                          /\ Len(processed) = idx - 1
                          /\ lastCall.idx \in 0..idx
        /\ ReturnedSummary => Len(processed) = Len(locks)
        /\ lastCall.idx # 0 => lastCall.call.lock_name = locks[lastCall.idx].name

C14_Step ==
    InsideRemoveAll =>
        /\ (pc = "list" /\ pc' = "loop") => (locks' \in Orders(gw) /\ idx' = 1)
        /\ pc = "loop" => /\ locks' = locks
                          /\ idx' \in {idx, idx + 1}
                          /\ processed' = processed \/ \E b \in BOOLEAN :
                                                          processed' = Append(processed, b)
                          /\ (idx' = idx + 1) => Len(processed') = Len(processed) + 1
                          /\ lastCall' # lastCall => lastCall'.idx = idx
        /\ lastCall'.idx >= lastCall.idx
        /\ \A i \in 1..Len(locks) :
              pc = "loop" => LockState(i)' \in LockSuccessors(LockState(i))

\* C14: sequential once-only processing.  remove_all_locks processes the enumerated
\* locks one by one in the order the gateway returned them, remove_lock once per lock;
\* every gateway call is for the lock at the current position, so all calls for position
\* i come before any call for position i + 1; and a lock goes from Pending through the
\* dry-run skip or Attempting to Succeeded or Failed, never back and never from one
\* final outcome to the other.
C14_SequentialOnce == []C14_State /\ [][C14_Step]_vars

\* two locks, the first removed after a retry, the second being retried
C14_Witness ==
    /\ op = "remove_all_locks"
    /\ pc = "loop"
    /\ idx = 2
    /\ processed = <<TRUE>>
    /\ LockState(2) = "Attempting"
    /\ lastCall.idx = 2
    /\ locks[1] \notin gw

\* C15: the exit code of main.  main exits with 1 when the subscription id is not 36
\* characters with exactly 4 hyphens (no remover is used then), and when remove_all_locks
\* raises (a client construction or authentication failure, a failed enumeration); it
\* ends with exit code 0 whenever remove_all_locks returns a summary, whatever failed is.
C15_ExitCode ==
    LET valid == subscription.length = 36 /\ subscription.hyphens = 4
    IN  /\ mpc = "exited" =>
              /\ exit_code \in {0, 1}
              /\ exit_code = 1 <=> (~valid \/ result.kind = "raise")
              /\ exit_code = 0 <=> (valid /\ ReturnedSummary)
        /\ (mpc # "off" /\ ~valid) => (ncalls = 0 /\ ~enumerated /\ client = "none")

\* every removal failed and main ended with exit code 0
C15_Witness ==
    /\ mpc = "exited"
    /\ exit_code = 0
    /\ ReturnedSummary
    /\ result.value = Summary(2, 0, 2)

\* an authentication failure at the enumeration: exit code 1
C15_WitnessAuth ==
    /\ mpc = "exited"
    /\ exit_code = 1
    /\ result = [kind |-> "raise", exc |-> "AuthenticationError"]

\* the failures the claim calls terminal
TerminalAnswers == {"ResourceNotFoundError", "HttpResponseError_403"}

\* C16: NotFound and PermissionDenied are terminal.  When an invocation of the gateway's
\* enumeration or of a delete operation fails with NotFound or with 403, the retrier
\* does not sleep and does not invoke the operation again: the step that gets the answer
\* ends the retried call.
C16_TerminalNotRetried ==
    [][((ListAttempt \/ DeleteAttempt) /\ lastAnswer' \in TerminalAnswers)
          => /\ Len(sleeps') # Len(sleeps) + 1
             /\ (pc' = pc /\ idx' = idx) => pc' = "idle"]_vars

\* s has the resourcegroups keyword at its place, in any letter case
HasGroupKeyword(s) == Len(s) >= 4 /\ Lower(s[4]) = "resourcegroups"

\* s has the two keywords at their places, in any letter case, each followed by "/"
HasBothKeywords(s) == HasGroupKeyword(s) /\ Len(s) >= 7 /\ Lower(s[6]) = "providers"

\* s with the keywords at positions 4 and 6 written in lower case
LowerKeywords(s) ==
    [i \in 1..Len(s) |-> IF i = 4 \/ (i = 6 /\ HasBothKeywords(s)) THEN Lower(s[i]) ELSE s[i]]

\* C17: keyword case-insensitivity.  A scope string and the string that differs from it
\* only in the letter case of the resourcegroups keyword and of the providers keyword
\* are parsed alike: the same variant with the same field values, or both rejected.
C17_KeywordCase ==
    (pstep = "done" /\ HasGroupKeyword(scope))
        => parsed = parse_lock_scope(LowerKeywords(scope))

\* the same for the resourcegroups keyword alone
C17_GroupKeywordCase ==
    (pstep = "done" /\ HasGroupKeyword(scope))
        => parsed = parse_lock_scope([scope EXCEPT ![4] = Lower(@)])

\* i is the first position of s, from position lo on, whose segment is kw in any letter case
FirstKeyword(s, kw, lo, i) ==
    /\ i \in lo..Len(s)
    /\ Lower(s[i]) = kw
    /\ \A j \in lo..(i - 1) : Lower(s[j]) # kw

NoTrailingSlash(n) == Len(n) = 1 \/ n[Len(n)] # ""

\* n is s with all its trailing "/" removed
Stripped(s, n) ==
    /\ Len(n) \in 1..Len(s)
    /\ n = SubSeq(s, 1, Len(n))
    /\ \A j \in (Len(n) + 1)..Len(s) : s[j] = ""
    /\ NoTrailingSlash(n)

\* C19: the resource-group variant.  When the text after the first /resourcegroups/ has
\* no providers segment, parse_lock_scope returns the resource_group variant with that
\* text, trailing "/" removed, as resource_group_name; an empty name is accepted; and no
\* resource_group_name returned ends with "/".
C19_ResourceGroupVariant ==
    pstep = "done" =>
        /\ \A i \in 2..(Len(scope) - 1) :
              (/\ FirstKeyword(scope, "resourcegroups", 2, i)
               /\ \A j \in (i + 1)..Len(scope) : Lower(scope[j]) # "providers")
                  => /\ ~IsExc(parsed)
                     /\ parsed.type = "resource_group"
                     /\ Stripped(After(scope, i), parsed.resource_group_name)
        /\ (~IsExc(parsed) /\ parsed.type = "resource_group")
              => NoTrailingSlash(parsed.resource_group_name)

\* "/subscriptions/S/resourcegroups/rg//": both trailing slashes are removed
C19_Witness ==
    /\ pstep = "done"
    /\ scope = <<"", "subscriptions", "S", "resourcegroups", "rg", "", "">>
    /\ parsed = [type |-> "resource_group", resource_group_name |-> <<"rg">>]

\* "/subscriptions/S/resourcegroups/": the empty name is accepted
C19_WitnessEmpty ==
    /\ pstep = "done"
    /\ scope = <<"", "subscriptions", "S", "resourcegroups", "">>
    /\ parsed = [type |-> "resource_group", resource_group_name |-> <<"">>]

\* the scope derived from the lock at the current position fails to parse
ScopeFailsToParse == IsExc(parse_lock_scope(ScopeOfId(locks[idx].id)))

C20_State ==
    (~dry_run /\ JustRemoved /\ lastAnswer = "InvalidScopeError")
        => /\ processed[Len(processed)] = FALSE
           /\ lastCall.idx # Len(processed)
           /\ (op = "remove_lock" /\ pc = "idle")
                 => (result = [kind |-> "return", value |-> FALSE] /\ invocations = 1)

C20_Step ==
    (DeleteAttempt /\ ScopeFailsToParse)
        => /\ lastAnswer' = "InvalidScopeError"
           /\ attempt = 0
           /\ Len(sleeps') # Len(sleeps) + 1
           /\ processed' = Append(processed, FALSE)
           /\ lastCall' = lastCall
           /\ gw' = gw
           /\ op = "remove_all_locks"
                 => /\ failure_count' = failure_count + 1
                    /\ success_count' = success_count
                    /\ IF idx < Len(locks)
                       THEN pc' = "loop" /\ idx' = idx + 1 /\ result' = result
                       ELSE ReturnedAll'

\* C20: an invalid scope during removal.  Not in dry-run mode, when the scope derived
\* from a lock fails to parse, remove_lock returns False on the first attempt: no sleep,
\* no retry, no gateway delete operation for that lock; in remove_all_locks the lock is
\* counted in failed and the loop goes on with the next lock or returns the summary.
C20_InvalidScopeFails == []C20_State /\ [][C20_Step]_vars

\* the first of two locks has a scope that does not parse, the second was removed
C20_Witness ==
    /\ ReturnedAll
    /\ ~dry_run
    /\ locks = <<LockBad, LockRG>>
    /\ processed = <<FALSE, TRUE>>
    /\ result.value = Summary(2, 1, 1)
    /\ lastCall.idx = 2
    /\ LockBad \in gw

\* the failures retry_with_backoff retries
RetriedAnswers == {"ServiceRequestError", "HttpResponseError_500", "ResourceNotFoundError"}

\* C21: retry recovery.  When the operation fails with retried failures on its first f
\* attempts, f <= max_retries, and succeeds on the next, retry_with_backoff returns the
\* result of that attempt, has invoked the operation f + 1 times and slept f times,
\* base_delay * 2^0 ... base_delay * 2^(f-1), and invokes nothing after the success.
C21_RetryRecovery ==
    \A i \in 1..Len(answers) :
        answers[i] = "ok" =>
            LET f == i - 1
            IN  /\ i = Len(answers)
                /\ \A j \in 1..f : answers[j] \in RetriedAnswers
                /\ f <= max_retries
                /\ rpc = "done"
                /\ rresult = [kind |-> "return", value |-> f + 1]
                /\ invocations = f + 1
                /\ Len(sleeps) = f
                /\ \A k \in 1..f : sleeps[k] = base_delay * (2 ^ (k - 1))

\* three transient failures, then success on the last permitted attempt
C21_Witness ==
    /\ rpc = "done"
    /\ max_retries = 3
    /\ base_delay = 2
    /\ answers = <<"ServiceRequestError", "HttpResponseError_500", "ServiceRequestError", "ok">>
    /\ sleeps = <<2, 4, 8>>
    /\ rresult = [kind |-> "return", value |-> 4]

\* the failures of the client construction (exceptions.py)
ConstructionFailures == {"AuthenticationError", "AzureClientError"}

C22_State ==
    /\ ncalls = 0 => client = "none"
    /\ (enumerated \/ lastCall.idx # 0) => client = "ready"
    /\ lastAnswer \in ConstructionFailures => client = "none"

C22_Step ==
    /\ client = "ready" => (client' = "ready" /\ lastAnswer' \notin ConstructionFailures)
    /\ client' # client
          => \/ ListAttempt /\ enumerated' /\ ~enumerated
             \/ DeleteAttempt /\ lastCall'.idx = idx /\ lastCall.idx # idx /\ ~enumerated
    /\ (dry_run /\ op' = "remove_lock") => client' = client

\* C22: lazy single construction of the client.  Constructing the remover constructs no
\* client, and neither does remove_lock in dry-run mode; the client is constructed in the
\* step that first uses the gateway, and once it is there no public call constructs it
\* again: every later gateway call uses it and no construction failure can occur.
C22_LazyClient == []C22_State /\ [][C22_Step]_vars

\* a list_locks constructed the client and the remove_lock after it reached the gateway
C22_Witness ==
    /\ ncalls = 2
    /\ prev = [op |-> "list_locks", lock |-> "none", outcome |-> "returned"]
    /\ op = "remove_lock"
    /\ pc = "idle"
    /\ lastCall.idx = 1
    /\ client = "ready"

\* two dry-run calls of remove_lock and still no client
C22_WitnessDryRun ==
    /\ ncalls = 2
    /\ dry_run
    /\ prev.op = "remove_lock"
    /\ op = "remove_lock"
    /\ pc = "idle"
    /\ client = "none"

\* C23: a failure of the client construction is fatal and not retried.  When the
\* construction fails during remove_all_locks it has been attempted once, in the first
\* invocation of the retried enumeration: no sleep follows, remove_all_locks raises the
\* AuthenticationError / AzureClientError, and neither the enumeration nor a delete
\* operation is invoked on the gateway.
C23_ConstructionFailureFatal ==
    (op = "remove_all_locks" /\ lastAnswer \in ConstructionFailures)
        => /\ pc = "idle"
           /\ result = [kind |-> "raise", exc |-> lastAnswer]
           /\ invocations = 1
           /\ sleeps = <<>>
           /\ attempt = 0
           /\ client = "none"
           /\ ~enumerated
           /\ NothingDeleted
           /\ locks = <<>>

\* the gateway holds locks, the client could not be constructed, remove_all_locks raised
C23_Witness ==
    /\ op = "remove_all_locks"
    /\ mpc = "running"
    /\ gw # {}
    /\ invocations = 1
    /\ result = [kind |-> "raise", exc |-> "AzureClientError"]

\* C24: scope derivation.  For a lock whose id is S + "/providers/Microsoft.Authorization/
\* locks/" + name, S of one of the three scope shapes, the scope string remove_lock hands
\* to the parser is S: the id without its last four segments, and nothing else removed.
C24_ScopeDerivation ==
    (lock_id # <<"">> /\ pstep # "id")
        => /\ scope = SubSeq(lock_id, 1, Len(lock_id) - 4)
           /\ lock_id = LockId(scope, lock_id[Len(lock_id)])

\* the same for the scopes that do not themselves contain the lock marker
C24_ExceptScopesOfLocks ==
    (lock_id # <<"">> /\ pstep # "id")
        => \/ scope = SubSeq(lock_id, 1, Len(lock_id) - 4)
           \/ \E j \in 2..(Len(lock_id) - 7) :
                 SubSeq(lock_id, j, j + 2) = <<"providers", "Microsoft.Authorization", "locks">>

\* the gateway calls and the sleeps remove_all_locks may have made when it is at the
\* lock at position i (i = 0: the enumeration) having invoked the retried function
\* n times and slept k times for it
WorkBound(i, n, k) ==
    /\ n <= max_retries + 1
    /\ k <= max_retries
    /\ gateway_calls <= (max_retries + 1) * i + n
    /\ slept <= max_retries * i + k

C25_State ==
    op = "remove_all_locks" =>
        /\ metered
        /\ max_retries = 3
        /\ sleeps \in {<<>>, <<1>>, <<1, 2>>, <<1, 2, 4>>}
        /\ pc = "list" => WorkBound(0, invocations, Len(sleeps)) /\ slept = Len(sleeps)
        /\ pc = "loop" => WorkBound(idx, invocations, Len(sleeps))
        /\ pc = "idle" => /\ gateway_calls <= 4 + 4 * Len(locks)
                          /\ slept <= 3 + 3 * Len(locks)
                          /\ locks = <<>> => gateway_calls <= 4 /\ slept <= 3

\* one step invokes the gateway at most once and sleeps at most once, and only the
\* enumeration and the delete for the current lock do
C25_Step ==
    op = "remove_all_locks" /\ op' = op /\ pc # "idle" =>
        /\ gateway_calls' \in {gateway_calls, gateway_calls + 1}
        /\ slept' \in {slept, slept + 1}
        /\ gateway_calls' # gateway_calls =>
              IF pc = "list" THEN lastCall' = lastCall
              ELSE lastCall'.idx = idx /\ invocations < max_retries + 1

\* C25: bounded work and termination.  With the default RetryManager (max_retries = 3)
\* and a gateway whose every call returns or raises, remove_all_locks always comes to
\* its end; it invokes the enumeration at most 4 times and, for each of the N enumerated
\* locks, a gateway delete at most 4 times, so at most 4 + 4N gateway calls and at most
\* 3 + 3N sleeps (of 1, 2 and 4 seconds per retried call) in total.
C25_BoundedWork ==
    /\ []C25_State
    /\ [][C25_Step]_vars
    /\ ((op = "remove_all_locks" /\ pc # "idle") ~> (pc = "idle"))

\* the bound is met: the enumeration and the deletes for two locks took four
\* invocations each
C25_Witness ==
    /\ ReturnedSummary
    /\ Len(locks) = 2
    /\ gateway_calls = 12
    /\ slept = 9

\* remove_lock has returned True for the enumerated lock at position i
ReturnedTrue(i) ==
    /\ op = "remove_all_locks"
    /\ i \in 1..Len(processed)
    /\ processed[i]

\* C26: success means gone.  Not in dry-run mode, against a gateway that keys locks by
\* their true scope and name, removes a lock only on a delete addressed to that scope
\* and name, answers NotFound otherwise and sees no lock created by others: whenever
\* remove_lock has returned True for an enumerated lock, that lock is no longer in the
\* gateway; so after remove_all_locks returned with failed = 0 none of the enumerated
\* locks remains.
C26_SuccessMeansGone ==
    /\ \A i \in 1..Len(locks) : ReturnedTrue(i) => locks[i] \notin gw
    /\ (ReturnedSummary /\ result.value.failed = 0) =>
           \A i \in 1..Len(locks) : locks[i] \notin gw

\* the same for every lock but the one in the resource group named providers
C26_ExceptGroupNamedProviders ==
    \A i \in 1..Len(locks) :
        (ReturnedTrue(i) /\ locks[i] # LockProv) => locks[i] \notin gw

\* remove_all_locks reported the only lock removed, and a lock was removed indeed
C26_Gone ==
    /\ ReturnedSummary
    /\ result.value = Summary(1, 1, 0)
    /\ locks = <<LockRes>>
    /\ lastAnswer = "ok"
    /\ gw = {}

\* C27: the outcome of a dry run.  For every list of N locks the enumeration returns,
\* whatever their scopes (those the parser rejects included), a dry-run remove_all_locks
\* returns total = N, success = N, failed = 0; the enumeration is still called on the
\* gateway, and it is the only gateway call made.
C27_DryRunOutcome ==
    /\ []((dry_run /\ ReturnedSummary) =>
              /\ result.value = Summary(Len(locks), Len(locks), 0)
              /\ Len(processed) = Len(locks)
              /\ enumerated
              /\ lastCall.idx = 0)
    /\ [][(dry_run /\ op = "remove_all_locks" /\ pc = "loop") =>
              (lastCall' = lastCall /\ enumerated' = enumerated /\ ~ListAttempt)]_vars

\* a dry run over the two locks its enumeration returned, the first with a scope the
\* parser rejects, returned 2 / 2 / 0
C27_Witness ==
    /\ dry_run
    /\ ReturnedSummary
    /\ enumerated
    /\ locks = <<LockBad, LockRes>>
    /\ processed = <<TRUE, TRUE>>
    /\ result.value = Summary(2, 2, 0)

\* the locks of the enumerated list
Snapshot == {locks[i] : i \in 1..Len(locks)}

\* the list is there, it came from one enumeration that succeeded, and every delete call
\* made carries the name of the listed lock it was made for and is addressed to no
\* other lock the gateway could hold
C28_State ==
    (op = "remove_all_locks" /\ locks # <<>>) =>
        /\ enumerated
        /\ pc # "list"
        /\ lastCall.idx # 0 =>
              /\ lastCall.idx \in 1..Len(locks)
              /\ lastCall.call.lock_name = locks[lastCall.idx].name
              /\ Addressed(GoneUniverse, lastCall.call) \subseteq {locks[lastCall.idx]}

\* the list is what the gateway held when the enumeration succeeded and is never taken
\* again; the call removes no lock but the listed one at the current position, so none
\* that was created later under another scope or name; and the loop leaves no listed
\* lock out, in the gateway or not
C28_Step ==
    InsideRemoveAll =>
        /\ (pc = "list" /\ locks' # <<>>) => (lastAnswer' = "ok" /\ locks' \in Orders(gw))
        /\ pc = "loop" => (locks' = locks /\ pc' # "list")
        /\ DeleteAttempt => (gw' \subseteq gw /\ gw \ gw' \subseteq {locks[idx]} \cap Snapshot)
        /\ (ListAttempt \/ RemoveLockDryRun) => gw' = gw
        /\ (pc = "loop" /\ (idx' # idx \/ pc' = "idle")) => Len(processed') = idx

\* the step of remove_all_locks that ends the removal of the current lock
LockDone == InsideRemoveAll /\ DeleteAttempt /\ processed' # processed

\* the current lock is gone and no delete call has been made for it: others deleted it
DeletedExternally == locks[idx] \notin gw /\ lastCall.idx # idx

\* C28 as stated: snapshot semantics.  remove_all_locks enumerates successfully exactly
\* once and issues delete calls only for locks of that snapshot; a lock created in the
\* gateway after the enumeration returned is never deleted by the call; and a lock that
\* others deleted after the enumeration is still processed and counted, as succeeded.
C28_SnapshotSemantics ==
    /\ []C28_State
    /\ [][C28_Step]_vars
    /\ [][(LockDone /\ DeletedExternally) =>
             /\ processed' = Append(processed, TRUE)
             /\ success_count' = success_count + 1
             /\ failure_count' = failure_count]_vars

\* C28 amended: the same, but a listed lock that is gone when its removal ends (deleted
\* by others, or by an earlier attempt whose response was lost) is counted as succeeded
\* when the last attempt of its delete is answered NotFound, and as failed when that
\* attempt fails otherwise or the lock's scope does not parse; a lock still there is
\* counted as succeeded exactly when the last attempt deletes it.
C28_SnapshotCounted ==
    /\ []C28_State
    /\ [][C28_Step]_vars
    /\ [][LockDone =>
             /\ processed' = Append(processed, lastAnswer' \in SuccessAnswers)
             /\ success_count' = success_count + (IF lastAnswer' \in SuccessAnswers THEN 1 ELSE 0)
             /\ failure_count' = failure_count + (IF lastAnswer' \in SuccessAnswers THEN 0 ELSE 1)
             /\ locks[idx] \notin gw => lastAnswer' # "ok"
             /\ lastAnswer' = "ok" => locks[idx] \notin gw']_vars

\* the enumeration returned one lock, others deleted it, and the first delete call made
\* for it all the same was answered NotFound
C28_Witness ==
    /\ op = "remove_all_locks"
    /\ pc = "loop"
    /\ locks = <<LockRes>>
    /\ gw = {}
    /\ enumerated
    /\ invocations = 1
    /\ lastCall.idx = 1
    /\ lastAnswer = "ResourceNotFoundError"

\* the call returned with that lock counted as succeeded after four answers of NotFound
C28_WitnessCounted ==
    /\ ReturnedSummary
    /\ locks = <<LockRes>>
    /\ gw = {}
    /\ invocations = 4
    /\ lastAnswer = "ResourceNotFoundError"
    /\ result.value = Summary(1, 1, 0)

\* how many of the locks processed so far had the outcome b
Counted(b) == Cardinality({i \in 1..Len(processed) : processed[i] = b})

\* the gateway applies the delete for the current lock and the response is lost
LostResponse ==
    /\ InsideRemoveAll
    /\ DeleteAttempt
    /\ locks[idx] \in gw
    /\ locks[idx] \notin gw'
    /\ lastAnswer' = "ServiceRequestError"

\* the retried delete goes round again for the same lock
NextAttemptFollows ==
    /\ pc' = "loop"
    /\ idx' = idx
    /\ processed' = processed
    /\ attempt' = attempt + 1
    /\ <<success_count', failure_count'>> = <<success_count, failure_count>>

\* with nobody else at the gateway, the current lock is gone only after a delete for it
\* whose response was lost, and attempts remain; and each processed lock is counted in
\* one of the two counters
C29_State ==
    op = "remove_all_locks" =>
        /\ (pc = "loop" /\ locks[idx] \notin gw) =>
               /\ lastCall.idx = idx
               /\ attempt \in 1..max_retries
               /\ lastAnswer # "ok"
        /\ success_count = Counted(TRUE)
        /\ failure_count = Counted(FALSE)
        /\ success_count + failure_count = Len(processed)

C29_Step ==
    /\ (LostResponse /\ attempt < max_retries) => NextAttemptFollows
    /\ (InsideRemoveAll /\ DeleteAttempt /\ locks[idx] \notin gw) =>
          /\ gw' = gw
          /\ lastAnswer' # "ok"
          /\ lastAnswer' = "ResourceNotFoundError" =>
                IF attempt < max_retries
                THEN NextAttemptFollows
                ELSE /\ processed' = Append(processed, TRUE)
                     /\ success_count' = success_count + 1
                     /\ failure_count' = failure_count

\* C29: the lost response of a delete.  When the gateway applies a delete but the
\* response is lost as a transient failure on an attempt that is not the last permitted
\* one, another attempt follows; the attempts that follow find the lock gone, each one
\* answered NotFound is followed by the next, and when the last is answered NotFound
\* remove_lock returns True and the lock is counted once, as succeeded.  No lock is ever
\* counted both as succeeded and as failed.
C29_LostResponse == []C29_State /\ [][C29_Step]_vars

\* the delete for the only lock was applied with its response lost, the attempts after it
\* were answered NotFound, and remove_all_locks returned 1 / 1 / 0
C29_Witness ==
    /\ ReturnedSummary
    /\ locks = <<LockRG>>
    /\ gw = {}
    /\ invocations = 4
    /\ sleeps = <<1, 2, 4>>
    /\ lastAnswer = "ResourceNotFoundError"
    /\ processed = <<TRUE>>
    /\ result.value = Summary(1, 1, 0)

====
